---------------------------- MODULE Spec2Model ----------------------------
(***************************************************************************)
(* A model of the TikTok live monitor: the snapshot classification         *)
(* (models.py), the collection cycle with its page-error / captcha         *)
(* recovery (collector.py collect_once), the interaction watermark         *)
(* (collector.py process_live_interactions, hooks.py) and the two          *)
(* orchestrators that drive them: LiveCollector.run (CLI) and              *)
(* MonitorAPIServer._run_collector (control panel).                        *)
(*                                                                         *)
(* Time is counted in ticks: one tick per loop sleep, one tick per poll of *)
(* the captcha wait.                                                       *)
(***************************************************************************)
EXTENDS Integers, Sequences, FiniteSets, TLC

\* ---------------------------------------------------------------- bounds
\* Interactions the in-page observer appends during one run.
MaxInteractions == 2
\* monitor_duration, in loop ticks (the API loop is cut at the same tick).
DurationTicks == 2
\* collect_interval, in loop ticks.
IntervalTicks == 1
\* The captcha wait window (timeout=300 s, polled once a second), in polls.
CaptchaTimeoutTicks == 1
\* Snapshots added to a session that is exercised on its own (SpecModels).
MaxSnapshots == 2
\* Start requests the control panel receives (SpecPanel).
MaxStarts == 3
\* The interpreter's recursion limit, in nested collect_once calls: the call
\* nested deeper raises RecursionError, which collect_once wraps like any
\* other exception.
MaxRecursion == 4
\* Code units that follow the filler in the body texts the preview is
\* computed on (SpecParser).
MaxTail == 2

\* ------------------------------------------------------ program constants
\* LiveCollector.max_page_error_retries
max_page_error_retries == 3
\* bodyText.substring(0, 500) in the status script
PreviewLimit == 500

\* ------------------------------------------------------------- snapshots
\* The fields of PageSnapshot that the program branches on, and one
\* (has_live_content) that it records but never branches on.
Snapshots ==
    [has_video : BOOLEAN, has_error_message : BOOLEAN,
     has_live_content : BOOLEAN, is_live_ended : BOOLEAN,
     has_captcha : BOOLEAN, has_page_error : BOOLEAN]

\* The pages the collector inspects.  collect_once never reads
\* has_live_content, so the inspected pages are enumerated with it tied to
\* has_video; SpecModels builds snapshots with every combination.
InspectedSnapshots == {s \in Snapshots : s.has_live_content = s.has_video}

\* The value of collect_once's local `snapshot` before any inspection.
NoSnapshot == [none |-> TRUE]

\* PageSnapshot.is_healthy with the captcha test dropped.
IsHealthyNoCaptcha(s) ==
    IF s.has_page_error THEN FALSE
    ELSE IF s.is_live_ended THEN TRUE
    ELSE ~s.has_error_message /\ s.has_video

\* PageSnapshot.is_healthy
is_healthy(s) ==
    IF s.has_captcha THEN FALSE
    ELSE IF s.has_page_error THEN FALSE
    ELSE IF s.is_live_ended THEN TRUE
    ELSE ~s.has_error_message /\ s.has_video

\* Python's list slice xs[n:]
SliceFrom(xs, n) == SubSeq(xs, n + 1, Len(xs))

Min(a, b) == IF a < b THEN a ELSE b

\* ------------------------------------------------------------------ state
VARIABLES
    flow,                        \* "cli": LiveCollector.run, "api": _run_collector,
                                 \* "single": LiveCollector.run_single_collect
    pc,                          \* position of the collector's loop thread
    ctx,                         \* call site of the running collect_once
    snapshot,                    \* the local `snapshot` of the running collect_once
                                 \* frame (NoSnapshot before its inspection and outside)
    outcome,                     \* the branch the last inspection took
    last_result,                 \* what the last collect_once call returned
    raised,                      \* a CollectionError is propagating / was raised
    snapshots,                   \* session.snapshots
    total_snapshots,             \* session.total_snapshots
    healthy_snapshots,           \* session.healthy_snapshots
    error_snapshots,             \* session.error_snapshots
    end_time,                    \* session.end_time: 0 is None, n the n-th finish()
    live_has_ended,              \* collector.live_has_ended
    processed_interaction_count, \* collector.processed_interaction_count
    page_error_retry_count,      \* collector.page_error_retry_count
    page_interactions,           \* window.__tiktok_live_interactions
    appended,                    \* interactions the observer has appended so far
    displayed,                   \* interactions passed to _display_interaction, in order
    driver_open,                 \* browser.driver is a live WebDriver
    captcha_server_up,           \* captcha_handler.api_server_thread is alive
    captcha_solved,              \* captcha_handler.captcha_solved
    click_dispatched,            \* the click script of the last submission found an
                                 \* element at (x, y) and dispatched the click on it
    captcha_image,               \* captcha_handler.captcha_image_base64 is set
    waited,                      \* polls done by the running wait_for_solution (0 outside it)
    elapsed,                     \* loop ticks since the monitor loop started
    last_collect_time,           \* the loop's last_collect_time
    should_stop,                 \* MonitorAPIServer.should_stop
    is_running,                  \* MonitorAPIServer.is_running
    server_captcha_solved,       \* MonitorAPIServer.captcha_solved
    handler_call,                \* the browser call a control-surface request handler
                                 \* is inside: "none", "click", "query" or "stop"
    threads,                     \* per start request, its collector thread: "unborn"
                                 \* (request not made yet), "rejected" (answered 400),
                                 \* "started", "running" or "finished"
    pe_streak,                   \* consecutive inspections that reported has_page_error
    pe_reloads,                  \* driver.refresh() calls during that streak
    inspected_captcha,           \* has_captcha of the snapshot last dispatched on
    depth,                       \* collect_once frames below the running one
    interrupted,                 \* a KeyboardInterrupt is propagating to main()
    exit_status,                 \* the process exit status, -1 while it runs
    hooks_current,               \* install_all_hooks and inject_data_extractor have run
                                 \* on the document the browser shows
    page,                        \* the page parse_page_status is evaluated on
    fault,                       \* the part of the evaluation that faults, or "none"
    status                       \* what parse_page_status gave

sessionVars == <<snapshots, total_snapshots, healthy_snapshots, error_snapshots, end_time>>
streamVars == <<processed_interaction_count, page_interactions, appended, displayed>>
captchaVars == <<captcha_server_up, captcha_solved, click_dispatched, captcha_image,
                 waited>>
clockVars == <<elapsed, last_collect_time>>
panelVars == <<threads>>
apiVars == <<should_stop, is_running, handler_call, server_captcha_solved, panelVars>>
cycleVars == <<outcome, last_result, page_error_retry_count, pe_streak, pe_reloads,
               inspected_captcha, depth>>

mainVars == <<interrupted, exit_status>>
parserVars == <<page, fault, status>>

vars == <<flow, mainVars, parserVars, hooks_current, pc, ctx, raised, live_has_ended, driver_open,
          sessionVars, streamVars, captchaVars, clockVars, apiVars, cycleVars,
          snapshot>>

\* ------------------------------------------------ parser.py: page status
\* UTF-16 code units of the body text: the ends of the two control ranges
\* the preview's replace() names, and their neighbours.
CodeUnits == {0, 31, 32, 126, 127, 159, 160}

\* A page as the status script sees it: `text` holds the phrases found in
\* document.body.innerText, `body` is that text's code units, and the rest is
\* what the DOM queries find (viewer -1: no viewer element with a number).
Phrases == {"try another browser", "Something went wrong", "Live ended", "captcha"}

Filler(n) == [i \in 1..n |-> 65]

Tails == UNION {[1..n -> CodeUnits] : n \in 0..MaxTail}

Bodies == {Filler(n) \o tl : n \in {0, PreviewLimit - 2, PreviewLimit - 1}, tl \in Tails}

SignalPages ==
    [text : SUBSET Phrases, body : {<<7, 65>>}, videoCount : {0, 2},
     liveDom : BOOLEAN, captchaDom : BOOLEAN, viewer : {-1, 7}, elements : {10}]

PreviewPages ==
    [text : {{}}, body : Bodies, videoCount : {1},
     liveDom : {TRUE}, captchaDom : {FALSE}, viewer : {-1}, elements : {10}]

NoPage ==
    [text |-> {}, body |-> <<>>, videoCount |-> 0, liveDom |-> FALSE,
     captchaDom |-> FALSE, viewer |-> -1, elements |-> 0]

\* The parts of the status script that can fault one at a time: reading the
\* body text, each entry of the returned object, and the execute_script call.
Signals ==
    {"hasVideo", "videoCount", "hasErrorMessage", "hasPageError", "isLiveEnded",
     "hasLiveContent", "hasCaptcha", "elementCount", "viewerCount", "bodyTextPreview"}

Faults == Signals \cup {"none", "bodyText", "channel"}

\* The entries the script evaluates inside a try/catch of their own.
GuardedSignals == {"hasPageError", "hasCaptcha", "viewerCount", "bodyTextPreview"}

\* bodyTextPreview: substring(0, 500), then every code unit in 0x00-0x1F or
\* 0x7F-0x9F replaced by a space.
IsControl(c) == (0 <= c /\ c <= 31) \/ (127 <= c /\ c <= 159)

\* Variant: only the code units 0x00-0x1F are replaced.
bodyTextPreviewAsciiOnly(bodyText) ==
    [i \in 1..Min(PreviewLimit, Len(bodyText)) |->
        IF bodyText[i] <= 31 THEN 32 ELSE bodyText[i]]


bodyTextPreview(bodyText) ==
    [i \in 1..Min(PreviewLimit, Len(bodyText)) |->
        IF IsControl(bodyText[i]) THEN 32 ELSE bodyText[i]]

\* The object the script's outer catch returns.
FallbackStatus ==
    [result |-> "returned", hasVideo |-> FALSE, videoCount |-> 0,
     hasErrorMessage |-> FALSE, hasPageError |-> FALSE, isLiveEnded |-> FALSE,
     hasLiveContent |-> FALSE, hasCaptcha |-> FALSE, elementCount |-> 0,
     viewerCount |-> -1, bodyTextPreview |-> <<>>]

NoStatus == [FallbackStatus EXCEPT !.result = "none"]

\* What the script computes on page pg when nothing faults.
Detected(pg) ==
    [result |-> "returned",
     hasVideo |-> pg.videoCount > 0,
     videoCount |-> pg.videoCount,
     hasErrorMessage |-> "try another browser" \in pg.text,
     hasPageError |-> "Something went wrong" \in pg.text,
     isLiveEnded |-> "Live ended" \in pg.text,
     hasLiveContent |-> pg.liveDom,
     hasCaptcha |-> ("captcha" \in pg.text) \/ pg.captchaDom,
     elementCount |-> pg.elements,
     viewerCount |-> pg.viewer,
     bodyTextPreview |-> bodyTextPreview(pg.body)]

\* getBodyText: the body text, or '' when reading it faults.
getBodyText(pg, f) ==
    IF f = "bodyText" THEN [pg EXCEPT !.text = {}, !.body = <<>>] ELSE pg

\* parse_page_status: execute_script raising gives ParserError; a fault in a
\* guarded entry gives that entry its default; a fault anywhere else in the
\* script reaches the outer catch, which returns the all-default object.
parse_page_status(pg, f) ==
    IF f = "channel"
    THEN [NoStatus EXCEPT !.result = "ParserError"]
    ELSE IF f \in GuardedSignals
    THEN [Detected(getBodyText(pg, f)) EXCEPT ![f] = FallbackStatus[f]]
    ELSE IF f \in Signals
    THEN FallbackStatus
    ELSE Detected(getBodyText(pg, f))

ParserIdle ==
    /\ page = NoPage
    /\ fault = "none"
    /\ status = NoStatus

\* --------------------------------------------------------- initial state
\* LiveCollector.__init__ and MonitorAPIServer.__init__, with the run about
\* to start: the CLI has built the collector; the panel has accepted a start
\* and its thread has entered _run_collector (is_running is set).
InitFields ==
    /\ ctx = "initial"
    /\ snapshot = NoSnapshot
    /\ outcome = "none"
    /\ last_result = "none"
    /\ raised = FALSE
    /\ snapshots = <<>>
    /\ total_snapshots = 0
    /\ healthy_snapshots = 0
    /\ error_snapshots = 0
    /\ end_time = 0
    /\ live_has_ended = FALSE
    /\ processed_interaction_count = 0
    /\ page_error_retry_count = 0
    /\ page_interactions = <<>>
    /\ appended = 0
    /\ displayed = <<>>
    /\ driver_open = FALSE
    /\ captcha_server_up = FALSE
    /\ captcha_solved = FALSE
    /\ click_dispatched = FALSE
    /\ captcha_image = FALSE
    /\ waited = 0
    /\ elapsed = 0
    /\ last_collect_time = 0
    /\ should_stop = FALSE
    /\ handler_call = "none"
    /\ threads = [t \in 1..MaxStarts |-> "unborn"]
    /\ server_captcha_solved = FALSE
    /\ hooks_current = FALSE
    /\ interrupted = FALSE
    /\ exit_status = -1
    /\ pe_streak = 0
    /\ pe_reloads = 0
    /\ inspected_captcha = FALSE
    /\ depth = 0

Init ==
    /\ flow \in {"cli", "api", "single"}
    /\ pc = "init"
    /\ is_running = (flow = "api")
    /\ InitFields
    /\ ParserIdle


\* ------------------------------------------------ returning to the caller
\* collect_once returns v to its call site.  The initial call (run():472,
\* _run_collector:266) discards v and looks at live_has_ended only; the call
\* of run_single_collect discards v and goes on to finalize; the call in the
\* monitor loop breaks on a false v.
ReturnValue(v, ended) ==
    /\ last_result' = IF v THEN "true" ELSE "false"
    /\ IF ctx = "initial"
       THEN /\ pc' = IF flow = "single" THEN "finalize"
                     ELSE IF ended THEN (IF flow = "cli" THEN "finalize" ELSE "cleanup")
                     ELSE "loop"
            /\ elapsed' = 0
            /\ last_collect_time' = 0
       ELSE /\ pc' = IF v THEN "interactions" ELSE "finalize"
            /\ elapsed' = elapsed
            /\ last_collect_time' = IF v THEN elapsed ELSE last_collect_time
    /\ snapshot' = NoSnapshot
    /\ depth' = 0
    /\ UNCHANGED <<flow, mainVars, parserVars, hooks_current, ctx, raised>>

\* Variant: the exception leaves the orchestrator without its finally clause.
RaiseCollectionErrorNoFinally ==
    /\ last_result' = "raised"
    /\ raised' = TRUE
    /\ pc' = "done"
    /\ snapshot' = NoSnapshot
    /\ depth' = 0
    /\ UNCHANGED <<flow, mainVars, parserVars, hooks_current, ctx, clockVars>>

\* collect_once raises CollectionError: run() re-raises it through its
\* finally, _run_collector logs it and falls into its finally.
RaiseCollectionError ==
    /\ last_result' = "raised"
    /\ raised' = TRUE
    /\ pc' = "cleanup"
    /\ snapshot' = NoSnapshot
    /\ depth' = 0
    /\ UNCHANGED <<flow, mainVars, parserVars, hooks_current, ctx, clockVars>>

\* ------------------------------------------------------------ the session
\* add_snapshot with the else missing: an unhealthy snapshot is counted as
\* an error, and every snapshot as healthy.
AddSnapshotCountsBoth(s) ==
    /\ snapshots' = Append(snapshots, s)
    /\ total_snapshots' = total_snapshots + 1
    /\ healthy_snapshots' = healthy_snapshots + 1
    /\ error_snapshots' = IF is_healthy(s) THEN error_snapshots ELSE error_snapshots + 1
    /\ end_time' = end_time

\* Variant: the new snapshot is put at the head of the list.
AddSnapshotAtHead(s) ==
    /\ snapshots' = <<s>> \o snapshots
    /\ total_snapshots' = total_snapshots + 1
    /\ IF is_healthy(s)
       THEN /\ healthy_snapshots' = healthy_snapshots + 1
            /\ error_snapshots' = error_snapshots
       ELSE /\ healthy_snapshots' = healthy_snapshots
            /\ error_snapshots' = error_snapshots + 1
    /\ end_time' = end_time

\* MonitorSession.add_snapshot
add_snapshot(s) ==
    /\ snapshots' = Append(snapshots, s)
    /\ total_snapshots' = total_snapshots + 1
    /\ IF is_healthy(s)
       THEN /\ healthy_snapshots' = healthy_snapshots + 1
            /\ error_snapshots' = error_snapshots
       ELSE /\ healthy_snapshots' = healthy_snapshots
            /\ error_snapshots' = error_snapshots + 1
    /\ end_time' = end_time

\* ---------------------------------------------------- the collection cycle
\* parser.create_snapshot() raises (the script channel is broken or the
\* browser is gone): collect_once wraps it in CollectionError.
CollectFault ==
    /\ pc = "collect"
    /\ inspected_captcha' = inspected_captcha
    /\ outcome' = "raised"
    /\ RaiseCollectionError
    /\ UNCHANGED <<page_error_retry_count, pe_streak, pe_reloads,
                   live_has_ended, driver_open, sessionVars, streamVars,
                   captchaVars, apiVars>>

\* The page-error branch with the counter test turned into <=.
PageErrorRetryOffByOne(s) ==
    /\ pc = "collect"
    /\ hooks_current' = TRUE
    /\ depth < MaxRecursion
    /\ depth' = depth + 1
    /\ inspected_captcha' = s.has_captcha
    /\ driver_open
    /\ s.has_page_error
    /\ page_error_retry_count <= max_page_error_retries
    /\ snapshot' = NoSnapshot
    /\ outcome' = "reload"
    /\ page_error_retry_count' = page_error_retry_count + 1
    /\ pe_streak' = pe_streak + 1
    /\ pe_reloads' = pe_reloads + 1
    /\ page_interactions' = <<>>
    /\ UNCHANGED <<flow, mainVars, parserVars, pc, ctx, raised, last_result, live_has_ended, driver_open,
                   sessionVars, processed_interaction_count, appended, displayed,
                   captchaVars, clockVars, apiVars>>

\* The page-error branch with the captcha test made first: a snapshot with
\* both flags goes to challenge handling.
PageErrorRetryCaptchaFirst(s) ==
    /\ pc = "collect"
    /\ hooks_current' = TRUE
    /\ depth < MaxRecursion
    /\ inspected_captcha' = s.has_captcha
    /\ driver_open
    /\ s.has_page_error
    /\ page_error_retry_count < max_page_error_retries
    /\ IF s.has_captcha
       THEN /\ snapshot' = s
            /\ outcome' = "captcha_wait"
            /\ captcha_solved' = FALSE
            /\ click_dispatched' = FALSE
            /\ captcha_image' = TRUE
            /\ captcha_server_up' = TRUE
            /\ waited' = 0
            /\ depth' = depth
            /\ pc' = "captcha_wait"
            /\ UNCHANGED <<page_error_retry_count, pe_streak, pe_reloads,
                           page_interactions>>
       ELSE /\ snapshot' = NoSnapshot
            /\ outcome' = "reload"
            /\ depth' = depth + 1
            /\ page_error_retry_count' = page_error_retry_count + 1
            /\ pe_streak' = pe_streak + 1
            /\ pe_reloads' = pe_reloads + 1
            /\ page_interactions' = <<>>
            /\ UNCHANGED <<pc, captchaVars>>
    /\ UNCHANGED <<flow, mainVars, parserVars, ctx, raised, last_result, live_has_ended, driver_open,
                   sessionVars, processed_interaction_count, appended, displayed,
                   clockVars, apiVars>>

\* Variant: the reload path also restarts the interaction watermark.
PageErrorRetryResetsWatermark(s) ==
    /\ pc = "collect"
    /\ hooks_current' = TRUE
    /\ depth < MaxRecursion
    /\ depth' = depth + 1
    /\ inspected_captcha' = s.has_captcha
    /\ driver_open
    /\ s.has_page_error
    /\ page_error_retry_count < max_page_error_retries
    /\ snapshot' = NoSnapshot
    /\ outcome' = "reload"
    /\ page_error_retry_count' = page_error_retry_count + 1
    /\ pe_streak' = pe_streak + 1
    /\ pe_reloads' = pe_reloads + 1
    /\ page_interactions' = <<>>
    /\ processed_interaction_count' = 0
    /\ UNCHANGED <<flow, mainVars, parserVars, pc, ctx, raised, last_result, live_has_ended, driver_open,
                   sessionVars, appended, displayed,
                   captchaVars, clockVars, apiVars>>

\* Variant: the page is reloaded and the cycle re-run without reinstalling
\* the hooks.
PageErrorRetryNoReinstall(s) ==
    /\ pc = "collect"
    /\ hooks_current' = FALSE
    /\ depth < MaxRecursion
    /\ depth' = depth + 1
    /\ inspected_captcha' = s.has_captcha
    /\ driver_open
    /\ s.has_page_error
    /\ page_error_retry_count < max_page_error_retries
    /\ snapshot' = NoSnapshot
    /\ outcome' = "reload"
    /\ page_error_retry_count' = page_error_retry_count + 1
    /\ pe_streak' = pe_streak + 1
    /\ pe_reloads' = pe_reloads + 1
    /\ page_interactions' = <<>>
    /\ UNCHANGED <<flow, mainVars, parserVars, pc, ctx, raised, last_result, live_has_ended, driver_open,
                   sessionVars, processed_interaction_count, appended, displayed,
                   captchaVars, clockVars, apiVars>>

\* collect_once, page-error branch, retries left: count the retry, reload
\* the page (which discards the page's globals), reinstall the hooks (which
\* starts a fresh captured list) and run the cycle again.
PageErrorRetry(s) ==
    /\ pc = "collect"
    /\ hooks_current' = TRUE
    /\ depth < MaxRecursion
    /\ depth' = depth + 1
    /\ inspected_captcha' = s.has_captcha
    /\ driver_open
    /\ s.has_page_error
    /\ page_error_retry_count < max_page_error_retries
    /\ snapshot' = NoSnapshot
    /\ outcome' = "reload"
    /\ page_error_retry_count' = page_error_retry_count + 1
    /\ pe_streak' = pe_streak + 1
    /\ pe_reloads' = pe_reloads + 1
    /\ page_interactions' = <<>>
    /\ UNCHANGED <<flow, mainVars, parserVars, pc, ctx, raised, last_result, live_has_ended, driver_open,
                   sessionVars, processed_interaction_count, appended, displayed,
                   captchaVars, clockVars, apiVars>>

\* collect_once, page-error branch, retries used up: return False.
PageErrorGiveUp(s) ==
    /\ pc = "collect"
    /\ depth < MaxRecursion
    /\ inspected_captcha' = s.has_captcha
    /\ driver_open
    /\ s.has_page_error
    /\ ~(page_error_retry_count < max_page_error_retries)
    /\ outcome' = "giveup"
    /\ pe_streak' = pe_streak + 1
    /\ ReturnValue(FALSE, live_has_ended)
    /\ UNCHANGED <<page_error_retry_count, pe_reloads, live_has_ended, driver_open,
                   sessionVars, streamVars, captchaVars, apiVars>>


\* The captcha branch without the counter reset of collector.py:183-184.
CollectCaptchaKeepsCount(s) ==
    /\ pc = "collect"
    /\ depth < MaxRecursion
    /\ depth' = depth
    /\ inspected_captcha' = s.has_captcha
    /\ driver_open
    /\ ~s.has_page_error
    /\ s.has_captcha
    /\ snapshot' = s
    /\ outcome' = "captcha_wait"
    /\ page_error_retry_count' = page_error_retry_count
    /\ pe_streak' = 0
    /\ pe_reloads' = 0
    /\ captcha_solved' = FALSE
    /\ click_dispatched' = FALSE
    /\ captcha_image' = TRUE
    /\ captcha_server_up' = TRUE
    /\ waited' = 0
    /\ pc' = "captcha_wait"
    /\ UNCHANGED <<flow, mainVars, parserVars, hooks_current, ctx, raised, last_result, live_has_ended, driver_open,
                   sessionVars, streamVars, clockVars, apiVars>>

\* Variant: the wait window is opened although no capture was published.
CollectCaptchaWaitsWithoutImage(s) ==
    /\ pc = "collect"
    /\ depth < MaxRecursion
    /\ depth' = depth
    /\ inspected_captcha' = s.has_captcha
    /\ driver_open
    /\ ~s.has_page_error
    /\ s.has_captcha
    /\ snapshot' = s
    /\ outcome' = "captcha_wait"
    /\ page_error_retry_count' = 0
    /\ pe_streak' = 0
    /\ pe_reloads' = 0
    /\ captcha_solved' = FALSE
    /\ click_dispatched' = FALSE
    /\ captcha_image' = FALSE
    /\ captcha_server_up' = TRUE
    /\ waited' = 0
    /\ pc' = "captcha_wait"
    /\ UNCHANGED <<flow, mainVars, parserVars, hooks_current, ctx, raised, last_result, live_has_ended, driver_open,
                   sessionVars, streamVars, clockVars, apiVars>>

\* Variant: the episode starts without clearing the solved flag.
CollectCaptchaKeepsSolved(s) ==
    /\ pc = "collect"
    /\ depth < MaxRecursion
    /\ depth' = depth
    /\ inspected_captcha' = s.has_captcha
    /\ driver_open
    /\ ~s.has_page_error
    /\ s.has_captcha
    /\ snapshot' = s
    /\ outcome' = "captcha_wait"
    /\ page_error_retry_count' = 0
    /\ pe_streak' = 0
    /\ pe_reloads' = 0
    /\ captcha_solved' = captcha_solved
    /\ click_dispatched' = click_dispatched
    /\ captcha_image' = TRUE
    /\ captcha_server_up' = TRUE
    /\ waited' = 0
    /\ pc' = "captcha_wait"
    /\ UNCHANGED <<flow, mainVars, parserVars, hooks_current, ctx, raised, last_result, live_has_ended, driver_open,
                   sessionVars, streamVars, clockVars, apiVars>>

\* collect_once, captcha branch, up to the wait: reset the page-error
\* counter, then _handle_captcha resets the handler, publishes the page
\* capture, starts the handler's server and enters wait_for_solution.
CollectCaptcha(s) ==
    /\ pc = "collect"
    /\ depth < MaxRecursion
    /\ depth' = depth
    /\ inspected_captcha' = s.has_captcha
    /\ driver_open
    /\ ~s.has_page_error
    /\ s.has_captcha
    /\ snapshot' = s
    /\ outcome' = "captcha_wait"
    /\ page_error_retry_count' = 0
    /\ pe_streak' = 0
    /\ pe_reloads' = 0
    /\ captcha_solved' = FALSE
    /\ click_dispatched' = FALSE
    /\ captcha_image' = TRUE
    /\ captcha_server_up' = TRUE
    /\ waited' = 0
    /\ pc' = "captcha_wait"
    /\ UNCHANGED <<flow, mainVars, parserVars, hooks_current, ctx, raised, last_result, live_has_ended, driver_open,
                   sessionVars, streamVars, clockVars, apiVars>>

\* collect_once, captcha branch, the screenshot fails: _handle_captcha
\* returns False after reset(), and collect_once returns False.
CollectCaptchaNoCapture(s) ==
    /\ pc = "collect"
    /\ depth < MaxRecursion
    /\ inspected_captcha' = s.has_captcha
    /\ driver_open
    /\ ~s.has_page_error
    /\ s.has_captcha
    /\ outcome' = "captcha_failed"
    /\ page_error_retry_count' = 0
    /\ pe_streak' = 0
    /\ pe_reloads' = 0
    /\ captcha_solved' = FALSE
    /\ click_dispatched' = FALSE
    /\ captcha_image' = FALSE
    /\ ReturnValue(FALSE, live_has_ended)
    /\ UNCHANGED <<live_has_ended, driver_open, captcha_server_up, waited,
                   sessionVars, streamVars, apiVars>>

\* The recording branch taken also for a captcha snapshot.
CollectRecordAnyCaptcha(s) ==
    /\ pc = "collect"
    /\ depth < MaxRecursion
    /\ inspected_captcha' = s.has_captcha
    /\ driver_open
    /\ ~s.has_page_error
    /\ outcome' = IF s.is_live_ended THEN "ended" ELSE "recorded"
    /\ page_error_retry_count' = 0
    /\ pe_streak' = 0
    /\ pe_reloads' = 0
    /\ add_snapshot(s)
    /\ live_has_ended' = (live_has_ended \/ s.is_live_ended)
    /\ ReturnValue(IF s.is_live_ended THEN FALSE ELSE is_healthy(s),
                   live_has_ended \/ s.is_live_ended)
    /\ UNCHANGED <<driver_open, streamVars, captchaVars, apiVars>>

\* The recording branch without the ended test of collector.py:218-221.
CollectRecordNoEndedTest(s) ==
    /\ pc = "collect"
    /\ depth < MaxRecursion
    /\ inspected_captcha' = s.has_captcha
    /\ driver_open
    /\ ~s.has_page_error
    /\ ~s.has_captcha
    /\ outcome' = "recorded"
    /\ page_error_retry_count' = 0
    /\ pe_streak' = 0
    /\ pe_reloads' = 0
    /\ add_snapshot(s)
    /\ live_has_ended' = live_has_ended
    /\ ReturnValue(is_healthy(s), live_has_ended)
    /\ UNCHANGED <<driver_open, streamVars, captchaVars, apiVars>>

\* The recording branch returning True whatever the snapshot's health.
CollectRecordAlwaysContinue(s) ==
    /\ pc = "collect"
    /\ depth < MaxRecursion
    /\ inspected_captcha' = s.has_captcha
    /\ driver_open
    /\ ~s.has_page_error
    /\ ~s.has_captcha
    /\ outcome' = IF s.is_live_ended THEN "ended" ELSE "recorded"
    /\ page_error_retry_count' = 0
    /\ pe_streak' = 0
    /\ pe_reloads' = 0
    /\ add_snapshot(s)
    /\ live_has_ended' = (live_has_ended \/ s.is_live_ended)
    /\ ReturnValue(IF s.is_live_ended THEN FALSE ELSE TRUE,
                   live_has_ended \/ s.is_live_ended)
    /\ UNCHANGED <<driver_open, streamVars, captchaVars, apiVars>>

\* The recording branch with the video-health test made before the ended
\* test: an ended page without a healthy video is recorded as unhealthy.
CollectRecordHealthFirst(s) ==
    /\ pc = "collect"
    /\ depth < MaxRecursion
    /\ inspected_captcha' = s.has_captcha
    /\ driver_open
    /\ ~s.has_page_error
    /\ ~s.has_captcha
    /\ page_error_retry_count' = 0
    /\ pe_streak' = 0
    /\ pe_reloads' = 0
    /\ add_snapshot(s)
    /\ IF s.has_error_message \/ ~s.has_video
       THEN /\ outcome' = "recorded"
            /\ live_has_ended' = live_has_ended
            /\ ReturnValue(FALSE, live_has_ended)
       ELSE /\ outcome' = IF s.is_live_ended THEN "ended" ELSE "recorded"
            /\ live_has_ended' = (live_has_ended \/ s.is_live_ended)
            /\ ReturnValue(~s.is_live_ended, live_has_ended \/ s.is_live_ended)
    /\ UNCHANGED <<driver_open, streamVars, captchaVars, apiVars>>

\* Variant: an ended snapshot sets live_has_ended but the callers go on
\* collecting.
CollectRecordGoesOnAfterEnded(s) ==
    /\ pc = "collect"
    /\ depth < MaxRecursion
    /\ inspected_captcha' = s.has_captcha
    /\ driver_open
    /\ ~s.has_page_error
    /\ ~s.has_captcha
    /\ outcome' = IF s.is_live_ended THEN "ended" ELSE "recorded"
    /\ page_error_retry_count' = 0
    /\ pe_streak' = 0
    /\ pe_reloads' = 0
    /\ add_snapshot(s)
    /\ live_has_ended' = (live_has_ended \/ s.is_live_ended)
    /\ ReturnValue(IF s.is_live_ended THEN TRUE ELSE is_healthy(s), FALSE)
    /\ UNCHANGED <<driver_open, streamVars, captchaVars, apiVars>>

\* collect_once, neither page error nor captcha: reset the counter, add the
\* snapshot to the session, and return False for an ended stream (setting
\* live_has_ended), the snapshot's is_healthy otherwise.
CollectRecord(s) ==
    /\ pc = "collect"
    /\ depth < MaxRecursion
    /\ inspected_captcha' = s.has_captcha
    /\ driver_open
    /\ ~s.has_page_error
    /\ ~s.has_captcha
    /\ outcome' = IF s.is_live_ended THEN "ended" ELSE "recorded"
    /\ page_error_retry_count' = 0
    /\ pe_streak' = 0
    /\ pe_reloads' = 0
    /\ add_snapshot(s)
    /\ live_has_ended' = (live_has_ended \/ s.is_live_ended)
    /\ ReturnValue(IF s.is_live_ended THEN FALSE ELSE is_healthy(s),
                   live_has_ended \/ s.is_live_ended)
    /\ UNCHANGED <<driver_open, streamVars, captchaVars, apiVars>>

\* wait_for_solution with a resolved challenge counted as a page-error retry.
WaitForSolutionCountsRetry ==
    /\ pc = "captcha_wait"
    /\ inspected_captcha' = inspected_captcha
    /\ IF waited < CaptchaTimeoutTicks
       THEN IF captcha_solved
            THEN /\ pc' = "collect"
                 /\ outcome' = "captcha_solved"
                 /\ depth' = depth + 1
                 /\ page_error_retry_count' = page_error_retry_count + 1
                 /\ waited' = 0
                 /\ snapshot' = NoSnapshot
                 /\ UNCHANGED <<last_result, flow, mainVars, parserVars, hooks_current, ctx, raised, clockVars>>
            ELSE /\ waited' = waited + 1
                 /\ UNCHANGED <<snapshot, pc, outcome, depth, last_result, flow, mainVars, parserVars, hooks_current, ctx, raised,
                                clockVars, page_error_retry_count>>
       ELSE /\ outcome' = "captcha_timeout"
            /\ waited' = 0
            /\ page_error_retry_count' = page_error_retry_count
            /\ ReturnValue(FALSE, live_has_ended)
    /\ UNCHANGED <<pe_streak, pe_reloads,
                   live_has_ended, driver_open, sessionVars, streamVars,
                   captcha_server_up, captcha_solved,
                   click_dispatched, captcha_image, apiVars>>

\* Variant: the wait has no timeout; it ends only when the challenge is solved.
WaitForSolutionNoTimeout ==
    /\ pc = "captcha_wait"
    /\ inspected_captcha' = inspected_captcha
    /\ IF captcha_solved
       THEN /\ pc' = "collect"
            /\ outcome' = "captcha_solved"
            /\ depth' = depth + 1
            /\ waited' = 0
            /\ snapshot' = NoSnapshot
            /\ UNCHANGED <<last_result, flow, mainVars, parserVars, hooks_current, ctx, raised, clockVars>>
       ELSE UNCHANGED <<waited, snapshot, pc, outcome, depth, last_result, flow, mainVars, parserVars, hooks_current,
                        ctx, raised, clockVars>>
    /\ UNCHANGED <<page_error_retry_count, pe_streak, pe_reloads,
                   live_has_ended, driver_open, sessionVars, streamVars,
                   captcha_server_up, captcha_solved,
                   click_dispatched, captcha_image, apiVars>>

\* CaptchaHandler.wait_for_solution, one turn of its loop, and what
\* _handle_captcha and collect_once do with its result: inside the window a
\* set flag ends the wait and collect_once runs again, an unset flag sleeps
\* one poll; after the window the wait fails and collect_once returns False.
WaitForSolution ==
    /\ pc = "captcha_wait"
    /\ inspected_captcha' = inspected_captcha
    /\ IF waited < CaptchaTimeoutTicks
       THEN IF captcha_solved
            THEN /\ pc' = "collect"
                 /\ outcome' = "captcha_solved"
                 /\ depth' = depth + 1
                 /\ waited' = 0
                 /\ snapshot' = NoSnapshot
                 /\ UNCHANGED <<last_result, flow, mainVars, parserVars, hooks_current, ctx, raised, clockVars>>
            ELSE /\ waited' = waited + 1
                 /\ UNCHANGED <<snapshot, pc, outcome, depth, last_result, flow, mainVars, parserVars, hooks_current, ctx, raised,
                                clockVars>>
       ELSE /\ outcome' = "captcha_timeout"
            /\ waited' = 0
            /\ ReturnValue(FALSE, live_has_ended)
    /\ UNCHANGED <<page_error_retry_count, pe_streak, pe_reloads,
                   live_has_ended, driver_open, sessionVars, streamVars,
                   captcha_server_up, captcha_solved,
                   click_dispatched, captcha_image, apiVars>>


\* collect_once, page-error branch: driver.refresh() raises after the retry
\* was counted; collect_once wraps it in CollectionError.
RefreshFault(s) ==
    /\ pc = "collect"
    /\ depth < MaxRecursion
    /\ inspected_captcha' = s.has_captcha
    /\ driver_open
    /\ s.has_page_error
    /\ page_error_retry_count < max_page_error_retries
    /\ outcome' = "raised"
    /\ page_error_retry_count' = page_error_retry_count + 1
    /\ pe_streak' = pe_streak + 1
    /\ pe_reloads' = pe_reloads
    /\ RaiseCollectionError
    /\ UNCHANGED <<live_has_ended, driver_open, sessionVars, streamVars,
                   captchaVars, apiVars>>

\* ------------------------------------------------------- the orchestrators
\* initialize(): start the browser, create the session.
Initialize ==
    /\ pc = "init"
    /\ pc' = "prepare"
    /\ driver_open' = TRUE
    /\ UNCHANGED <<flow, mainVars, parserVars, hooks_current, ctx, raised, live_has_ended, apiVars, sessionVars,
                   streamVars, captchaVars, clockVars, cycleVars, snapshot>>

\* initialize(): browser.start() raises (no driver is created); the
\* CollectionError goes to the orchestrator's finally clause.
InitializeFault ==
    /\ pc = "init"
    /\ pc' = "cleanup"
    /\ raised' = TRUE
    /\ UNCHANGED <<flow, mainVars, parserVars, hooks_current, ctx, live_has_ended, driver_open, apiVars, sessionVars,
                   streamVars, captchaVars, clockVars, cycleVars, snapshot>>

\* prepare(): visiting the live room raises (navigation fails, or the
\* browser has been closed); the CollectionError goes to the finally clause.
PrepareFault ==
    /\ pc = "prepare"
    /\ pc' = "cleanup"
    /\ raised' = TRUE
    /\ UNCHANGED <<flow, mainVars, parserVars, hooks_current, ctx, live_has_ended, driver_open, sessionVars, streamVars,
                   captchaVars, clockVars, apiVars, cycleVars, snapshot>>

\* prepare(): visit the live room and install the hooks, which creates the
\* page's captured list; then the initial collect_once is called.
Prepare ==
    /\ pc = "prepare"
    /\ hooks_current' = TRUE
    /\ driver_open
    /\ pc' = "collect"
    /\ ctx' = "initial"
    /\ page_interactions' = <<>>
    /\ UNCHANGED <<flow, mainVars, parserVars, raised, live_has_ended, driver_open, sessionVars,
                   processed_interaction_count, appended, displayed,
                   captchaVars, clockVars, apiVars, cycleVars, snapshot>>

\* The head of the control panel's loop with the should_stop test missing.
LoopTopIgnoresStop ==
    /\ pc = "loop"
    /\ IF (IF flow = "cli" THEN elapsed < DurationTicks ELSE TRUE)
       THEN IF elapsed - last_collect_time >= IntervalTicks
            THEN pc' = "collect" /\ ctx' = "loop"
            ELSE pc' = "interactions" /\ ctx' = ctx
       ELSE pc' = "finalize" /\ ctx' = ctx
    /\ UNCHANGED <<flow, mainVars, parserVars, hooks_current, raised, live_has_ended, driver_open, sessionVars,
                   streamVars, captchaVars, clockVars, apiVars, cycleVars, snapshot>>

\* The head of the monitor loop: monitor() runs while the duration lasts,
\* _run_collector while should_stop is unset; a due snapshot interval calls
\* collect_once, otherwise the interactions are polled.
LoopTop ==
    /\ pc = "loop"
    /\ IF (IF flow = "cli" THEN elapsed < DurationTicks ELSE ~should_stop)
       THEN IF elapsed - last_collect_time >= IntervalTicks
            THEN pc' = "collect" /\ ctx' = "loop"
            ELSE pc' = "interactions" /\ ctx' = ctx
       ELSE pc' = "finalize" /\ ctx' = ctx
    /\ UNCHANGED <<flow, mainVars, parserVars, hooks_current, raised, live_has_ended, driver_open, sessionVars,
                   streamVars, captchaVars, clockVars, apiVars, cycleVars, snapshot>>

\* JavaScriptHook.get_live_interactions: the page's list, or [] when the
\* script call raises.
get_live_interactions(ok) == IF ok THEN page_interactions ELSE <<>>

\* Variant: a failed browser query is not swallowed; it ends the run like a
\* fault of collect_once.
process_live_interactions_raises(ok) ==
    /\ pc = "interactions"
    /\ ok => driver_open
    /\ IF ok
       THEN LET all_interactions == get_live_interactions(ok)
                new_interactions == SliceFrom(all_interactions, processed_interaction_count)
            IN /\ displayed' = displayed \o new_interactions
               /\ processed_interaction_count' = Len(all_interactions)
               /\ pc' = "sleep"
               /\ raised' = raised
       ELSE /\ UNCHANGED <<displayed, processed_interaction_count>>
            /\ pc' = "cleanup"
            /\ raised' = TRUE
    /\ UNCHANGED <<flow, mainVars, parserVars, hooks_current, ctx, live_has_ended, driver_open, sessionVars,
                   page_interactions, appended, captchaVars, clockVars, apiVars,
                   cycleVars, snapshot>>

\* process_live_interactions: display the slice of the fetched list beyond
\* the watermark, then set the watermark to the fetched list's length.
process_live_interactions(ok) ==
    /\ pc = "interactions"
    /\ ok => driver_open
    /\ LET all_interactions == get_live_interactions(ok)
           new_interactions == SliceFrom(all_interactions, processed_interaction_count)
       IN /\ displayed' = displayed \o new_interactions
          /\ processed_interaction_count' = Len(all_interactions)
    /\ pc' = "sleep"
    /\ UNCHANGED <<flow, mainVars, parserVars, hooks_current, ctx, raised, live_has_ended, driver_open, sessionVars,
                   page_interactions, appended, captchaVars, clockVars, apiVars,
                   cycleVars, snapshot>>

\* time.sleep(0.2) at the end of a loop turn.  The clock stops at
\* DurationTicks: the control panel's loop goes on from there only to see a
\* stop request.
LoopSleep ==
    /\ pc = "sleep"
    /\ elapsed < DurationTicks \/ should_stop
    /\ elapsed' = IF elapsed < DurationTicks THEN elapsed + 1 ELSE elapsed
    /\ pc' = "loop"
    /\ UNCHANGED <<flow, mainVars, parserVars, hooks_current, ctx, raised, live_has_ended, driver_open, sessionVars,
                   streamVars, captchaVars, last_collect_time, apiVars, cycleVars, snapshot>>

\* Variant: another collection cycle is run after the session was finished.
FinalizeThenCollect ==
    /\ pc = "finalize"
    /\ end_time' = end_time + 1
    /\ pc' = "collect"
    /\ UNCHANGED <<flow, mainVars, parserVars, hooks_current, ctx, raised, live_has_ended, driver_open, snapshots,
                   total_snapshots, healthy_snapshots, error_snapshots,
                   streamVars, captchaVars, clockVars, apiVars, cycleVars, snapshot>>

\* finalize(): session.finish() sets end_time; the summary is printed.
Finalize ==
    /\ pc = "finalize"
    /\ end_time' = end_time + 1
    /\ pc' = "cleanup"
    /\ UNCHANGED <<flow, mainVars, parserVars, hooks_current, ctx, raised, live_has_ended, driver_open, snapshots,
                   total_snapshots, healthy_snapshots, error_snapshots,
                   streamVars, captchaVars, clockVars, apiVars, cycleVars, snapshot>>

\* finalize(): session.finish() has run and printing the summary raises;
\* the CollectionError goes to the finally clause.
FinalizeFault ==
    /\ pc = "finalize"
    /\ end_time' = end_time + 1
    /\ raised' = TRUE
    /\ pc' = "cleanup"
    /\ UNCHANGED <<flow, mainVars, parserVars, hooks_current, ctx, live_has_ended, driver_open, snapshots,
                   total_snapshots, healthy_snapshots, error_snapshots,
                   streamVars, captchaVars, clockVars, apiVars, cycleVars, snapshot>>

\* Variant: the finally clause closes the browser but leaves is_running set.
CleanupKeepsRunning ==
    /\ pc = "cleanup"
    /\ driver_open' = FALSE
    /\ is_running' = is_running
    /\ pc' = "done"
    /\ UNCHANGED <<flow, mainVars, parserVars, hooks_current, ctx, panelVars,
                   server_captcha_solved, raised, live_has_ended, should_stop, handler_call, sessionVars,
                   streamVars, captchaVars, clockVars, cycleVars, snapshot>>

\* cleanup() in the finally clause: browser.close(); _run_collector then
\* clears is_running.
Cleanup ==
    /\ pc = "cleanup"
    /\ driver_open' = FALSE
    /\ is_running' = FALSE
    /\ pc' = "done"
    /\ UNCHANGED <<flow, mainVars, parserVars, hooks_current, ctx, panelVars,
                   server_captcha_solved, raised, live_has_ended, should_stop, handler_call, sessionVars,
                   streamVars, captchaVars, clockVars, cycleVars, snapshot>>

\* ---------------------------------------------------------- environment
\* The in-page MutationObserver pushes one interaction on the page's list.
ObserverAppend ==
    /\ pc \notin {"init", "prepare", "done"}
    /\ driver_open
    /\ hooks_current
    /\ appended < MaxInteractions
    /\ appended' = appended + 1
    /\ page_interactions' = Append(page_interactions, appended + 1)
    /\ UNCHANGED <<flow, mainVars, parserVars, hooks_current, pc, ctx, raised, live_has_ended, driver_open, sessionVars,
                   processed_interaction_count, displayed, captchaVars,
                   clockVars, apiVars, cycleVars, snapshot>>

\* ------------------------------------------------- the control surface
\* The request handlers run on the HTTP servers' threads.  Under Spec a
\* handler is one step, taken between two steps of the loop thread.

\* CaptchaHandler's POST /api/captcha/click: _click_at_coordinates runs the
\* click script, which dispatches a click when it finds an element at (x, y)
\* and returns whether it did; the script's result is not read, and the
\* solved flag is set whenever the script call did not raise.
handle_click ==
    /\ captcha_server_up
    /\ driver_open
    /\ handler_call = "none"
    /\ \E found \in BOOLEAN : click_dispatched' = found
    /\ captcha_solved' = TRUE
    /\ UNCHANGED <<flow, mainVars, parserVars, hooks_current, pc, ctx, raised, live_has_ended, driver_open, sessionVars,
                   streamVars, captcha_server_up, captcha_image, waited, clockVars,
                   apiVars, cycleVars, snapshot>>

\* MonitorAPIServer's POST /api/captcha/click: the click script runs on the
\* collector's driver and MonitorAPIServer.captcha_solved is set; when there
\* is no collector or the script raises, the request is answered with an error.
handle_captcha_click ==
    /\ flow = "api"
    /\ pc \notin {"init", "done"}
    /\ driver_open
    /\ handler_call = "none"
    /\ server_captcha_solved' = TRUE
    /\ UNCHANGED <<flow, mainVars, parserVars, hooks_current, pc, ctx, raised, live_has_ended, driver_open, sessionVars,
                   streamVars, captchaVars, clockVars, should_stop, is_running,
                   handler_call, panelVars, cycleVars, snapshot>>

\* MonitorAPIServer's POST /api/stop: set should_stop and close the browser.
stop_monitoring ==
    /\ flow = "api"
    /\ is_running
    /\ handler_call = "none"
    /\ should_stop' = TRUE
    /\ driver_open' = FALSE
    /\ UNCHANGED <<flow, mainVars, parserVars, hooks_current, pc, ctx, panelVars,
                   server_captcha_solved, raised, live_has_ended, is_running, handler_call,
                   sessionVars, streamVars, captchaVars, clockVars, cycleVars, snapshot>>

\* ------------------------------------------------------------ the system
\* The steps of the collector's loop thread.
LoopThread ==
    \/ Initialize
    \/ InitializeFault
    \/ Prepare
    \/ PrepareFault
    \/ CollectFault
    \/ \E s \in InspectedSnapshots : PageErrorRetry(s)
    \/ \E s \in InspectedSnapshots : RefreshFault(s)
    \/ \E s \in InspectedSnapshots : PageErrorGiveUp(s)
    \/ \E s \in InspectedSnapshots : CollectCaptcha(s)
    \/ \E s \in InspectedSnapshots : CollectCaptchaNoCapture(s)
    \/ \E s \in InspectedSnapshots : CollectRecord(s)
    \/ WaitForSolution
    \/ LoopTop
    \/ \E ok \in BOOLEAN : process_live_interactions(ok)
    \/ LoopSleep
    \/ Finalize
    \/ FinalizeFault
    \/ Cleanup

Next ==
    \/ LoopThread
    \/ ObserverAppend
    \/ handle_click
    \/ stop_monitoring

Spec == Init /\ [][Next]_vars

\* ------------------------------------------- a control-panel run, live
\* A run of _run_collector whose loop thread keeps taking steps: every
\* blocking call of the thread (a browser call, a sleep) returns or raises.
InitApi ==
    /\ flow = "api"
    /\ pc = "init"
    /\ is_running = TRUE
    /\ InitFields
    /\ ParserIdle

SpecStop == InitApi /\ [][Next]_vars /\ WF_vars(LoopThread)

\* --------------------------------------- parser.py exercised on its own
\* One evaluation of the status script on a page, with at most one fault.
InitParser ==
    /\ flow = "cli"
    /\ pc = "parser"
    /\ is_running = FALSE
    /\ InitFields
    /\ \/ page \in SignalPages /\ fault \in Faults
       \/ page \in PreviewPages /\ fault \in {"none", "bodyTextPreview"}
    /\ status = NoStatus

ParsePageStatus ==
    /\ pc = "parser"
    /\ pc' = "parsed"
    /\ status' = parse_page_status(page, fault)
    /\ UNCHANGED <<flow, mainVars, hooks_current, page, fault, ctx, raised, live_has_ended,
                   driver_open, sessionVars, streamVars, captchaVars, clockVars,
                   apiVars, cycleVars, snapshot>>

NextParser == ParsePageStatus

SpecParser == InitParser /\ [][NextParser]_vars

\* ------------------------------------------------------- main.py's main()
\* The command-line run: main() calls run() or run_single_collect() and maps
\* what comes out of it to the process exit status.
InitMain ==
    /\ flow \in {"cli", "single"}
    /\ pc = "init"
    /\ is_running = FALSE
    /\ InitFields
    /\ ParserIdle

\* The user presses Ctrl+C.  Inside monitor() the KeyboardInterrupt is caught
\* by monitor's handler and the run goes on to finalize(); anywhere else it
\* passes the `except Exception` clauses, runs the finally clause and reaches
\* main().  (An interrupt during cleanup() itself is left out.)
KeyboardInterrupt ==
    /\ flow \in {"cli", "single"}
    /\ pc \in {"init", "prepare", "collect", "captcha_wait", "loop",
               "interactions", "sleep", "finalize"}
    /\ ~interrupted
    /\ IF /\ flow = "cli"
          /\ \/ pc \in {"loop", "interactions", "sleep"}
             \/ pc \in {"collect", "captcha_wait"} /\ ctx = "loop"
       THEN pc' = "finalize" /\ interrupted' = interrupted
       ELSE pc' = "cleanup" /\ interrupted' = TRUE
    /\ snapshot' = NoSnapshot
    /\ depth' = 0
    /\ waited' = 0
    /\ UNCHANGED <<flow, parserVars, hooks_current, exit_status, ctx, raised, live_has_ended, driver_open,
                   sessionVars, streamVars, captcha_server_up, captcha_solved,
                   click_dispatched,
                   captcha_image, clockVars, apiVars, outcome, last_result,
                   page_error_retry_count, pe_streak, pe_reloads,
                   inspected_captcha>>

\* Variant: main() reports the error and ends without sys.exit(1).
main_exit_zero ==
    /\ flow \in {"cli", "single"}
    /\ pc = "done"
    /\ pc' = "exited"
    /\ exit_status' = 0
    /\ UNCHANGED <<flow, parserVars, hooks_current, interrupted, ctx, raised, live_has_ended, driver_open,
                   sessionVars, streamVars, captchaVars, clockVars, apiVars,
                   cycleVars, snapshot>>

\* main() after run() or run_single_collect() is over: sys.exit(0) on a
\* KeyboardInterrupt, sys.exit(1) on any other exception, and status 0 when
\* the call returned.
main_exit ==
    /\ flow \in {"cli", "single"}
    /\ pc = "done"
    /\ pc' = "exited"
    /\ exit_status' = IF interrupted THEN 0 ELSE IF raised THEN 1 ELSE 0
    /\ UNCHANGED <<flow, parserVars, hooks_current, interrupted, ctx, raised, live_has_ended, driver_open,
                   sessionVars, streamVars, captchaVars, clockVars, apiVars,
                   cycleVars, snapshot>>

NextMain ==
    \/ LoopThread
    \/ ObserverAppend
    \/ handle_click
    \/ KeyboardInterrupt
    \/ main_exit

SpecMain == InitMain /\ [][NextMain]_vars

\* The control-panel run with both click endpoints: CaptchaHandler's own
\* server and the control panel's.
NextClick ==
    \/ Next
    \/ handle_captcha_click

SpecClick == InitApi /\ [][NextClick]_vars

\* ------------------------------- the handlers' browser calls, interleaved
\* A handler that calls into the browser is taken in two steps, entering the
\* call and returning from it, and the loop thread's steps interleave with
\* the call.  One handler call is in flight at a time, and none is started
\* once the run is over.

\* POST /api/captcha/click: the handler enters _click_at_coordinates, which
\* runs the click script in the browser.
handle_click_enter ==
    /\ captcha_server_up
    /\ pc # "done"
    /\ handler_call = "none"
    /\ handler_call' = "click"
    /\ UNCHANGED <<flow, mainVars, parserVars, hooks_current, pc, ctx, panelVars,
                   server_captcha_solved, raised, live_has_ended, driver_open, sessionVars,
                   streamVars, captchaVars, clockVars, should_stop, is_running,
                   cycleVars, snapshot>>

\* The click script returns and the solved flag is set; with the browser
\* closed the script call raises and the flag is left alone.
handle_click_return ==
    /\ handler_call = "click"
    /\ handler_call' = "none"
    /\ captcha_solved' = (captcha_solved \/ driver_open)
    /\ IF driver_open
       THEN \E found \in BOOLEAN : click_dispatched' = found
       ELSE click_dispatched' = click_dispatched
    /\ UNCHANGED <<flow, mainVars, parserVars, hooks_current, pc, ctx, panelVars,
                   server_captcha_solved, raised, live_has_ended, driver_open, sessionVars,
                   streamVars, captcha_server_up, captcha_image, waited, clockVars,
                   should_stop, is_running, cycleVars, snapshot>>

\* GET /api/interactions (MonitorAPIServer, and CaptchaHandler through its
\* callback): the handler enters hooks.get_live_interactions, a script call.
get_interactions_enter ==
    /\ \/ flow = "api" /\ is_running /\ pc \notin {"init", "prepare"}
       \/ captcha_server_up
    /\ pc # "done"
    /\ handler_call = "none"
    /\ handler_call' = "query"
    /\ UNCHANGED <<flow, mainVars, parserVars, hooks_current, pc, ctx, panelVars,
                   server_captcha_solved, raised, live_has_ended, driver_open, sessionVars,
                   streamVars, captchaVars, clockVars, should_stop, is_running,
                   cycleVars, snapshot>>

\* Variant: the query consumes what it returns, moving the watermark.
get_interactions_drains ==
    /\ handler_call = "query"
    /\ handler_call' = "none"
    /\ processed_interaction_count' = Len(page_interactions)
    /\ UNCHANGED <<flow, mainVars, parserVars, hooks_current, pc, ctx, panelVars,
                   server_captcha_solved, raised, live_has_ended, driver_open, sessionVars,
                   page_interactions, appended, displayed, captchaVars, clockVars,
                   should_stop, is_running, cycleVars, snapshot>>

\* The query returns the page's list to the client; nothing is written.
get_interactions_return ==
    /\ handler_call = "query"
    /\ handler_call' = "none"
    /\ UNCHANGED <<flow, mainVars, parserVars, hooks_current, pc, ctx, panelVars,
                   server_captcha_solved, raised, live_has_ended, driver_open, sessionVars,
                   streamVars, captchaVars, clockVars, should_stop, is_running,
                   cycleVars, snapshot>>

\* POST /api/stop: set should_stop and enter collector.cleanup(), that is
\* browser.close().
stop_monitoring_enter ==
    /\ flow = "api"
    /\ is_running
    /\ handler_call = "none"
    /\ should_stop' = TRUE
    /\ handler_call' = "stop"
    /\ UNCHANGED <<flow, mainVars, parserVars, hooks_current, pc, ctx, panelVars,
                   server_captcha_solved, raised, live_has_ended, driver_open, is_running,
                   sessionVars, streamVars, captchaVars, clockVars, cycleVars, snapshot>>

\* browser.close() returns in the stop handler: the driver has quit.
stop_monitoring_return ==
    /\ handler_call = "stop"
    /\ handler_call' = "none"
    /\ driver_open' = FALSE
    /\ UNCHANGED <<flow, mainVars, parserVars, hooks_current, pc, ctx, panelVars,
                   server_captcha_solved, raised, live_has_ended, should_stop, is_running,
                   sessionVars, streamVars, captchaVars, clockVars, cycleVars, snapshot>>

NextThreads ==
    \/ LoopThread
    \/ ObserverAppend
    \/ handle_click_enter
    \/ handle_click_return
    \/ get_interactions_enter
    \/ get_interactions_return
    \/ stop_monitoring_enter
    \/ stop_monitoring_return

SpecThreads == Init /\ [][NextThreads]_vars



\* --------------------------------------------- the control panel's start
\* MonitorAPIServer with no run yet: start requests arrive, each accepted one
\* spawns a thread running _run_collector, which sets is_running on entry and
\* clears it in its finally clause.  What the thread does in between is the
\* run that Spec describes; stop requests set should_stop.
InitPanel ==
    /\ flow = "api"
    /\ pc = "panel"
    /\ is_running = FALSE
    /\ InitFields
    /\ ParserIdle

\* The t-th POST /api/start: answered 400 when is_running is set, otherwise
\* should_stop is cleared and a collector thread is started.
start_monitoring(t) ==
    /\ pc = "panel"
    /\ threads[t] = "unborn"
    /\ \A u \in 1..(t - 1) : threads[u] # "unborn"
    /\ IF is_running
       THEN /\ threads' = [threads EXCEPT ![t] = "rejected"]
            /\ UNCHANGED should_stop
       ELSE /\ threads' = [threads EXCEPT ![t] = "started"]
            /\ should_stop' = FALSE
    /\ UNCHANGED <<flow, mainVars, parserVars, hooks_current, pc, ctx, server_captcha_solved, raised, live_has_ended, driver_open, is_running,
                   handler_call, sessionVars, streamVars, captchaVars, clockVars,
                   cycleVars, snapshot>>

\* _run_collector begins on thread t: is_running = True.
run_collector_enter(t) ==
    /\ pc = "panel"
    /\ threads[t] = "started"
    /\ threads' = [threads EXCEPT ![t] = "running"]
    /\ is_running' = TRUE
    /\ UNCHANGED <<flow, mainVars, parserVars, hooks_current, pc, ctx, server_captcha_solved, raised, live_has_ended, driver_open, should_stop,
                   handler_call, sessionVars, streamVars, captchaVars,
                   clockVars, cycleVars, snapshot>>

\* _run_collector's finally clause on thread t: is_running = False.
run_collector_exit(t) ==
    /\ pc = "panel"
    /\ threads[t] = "running"
    /\ threads' = [threads EXCEPT ![t] = "finished"]
    /\ is_running' = FALSE
    /\ UNCHANGED <<flow, mainVars, parserVars, hooks_current, pc, ctx, server_captcha_solved, raised, live_has_ended, driver_open, should_stop,
                   handler_call, sessionVars, streamVars, captchaVars,
                   clockVars, cycleVars, snapshot>>

NextPanel ==
    \/ \E t \in 1..MaxStarts : start_monitoring(t)
    \/ \E t \in 1..MaxStarts : run_collector_enter(t)
    \/ \E t \in 1..MaxStarts : run_collector_exit(t)
    \/ stop_monitoring

SpecPanel == InitPanel /\ [][NextPanel]_vars

\* ------------------------------------------- models.py exercised on its own
\* A fresh MonitorSession and no collector: PageSnapshots of every shape are
\* built and passed to add_snapshot.
InitModels ==
    /\ flow = "cli"
    /\ pc = "models"
    /\ is_running = FALSE
    /\ InitFields
    /\ ParserIdle

ModelsAddSnapshot(s) ==
    /\ pc = "models"
    /\ depth' = depth
    /\ inspected_captcha' = inspected_captcha
    /\ Len(snapshots) < MaxSnapshots
    /\ snapshot' = s
    /\ add_snapshot(s)
    /\ UNCHANGED <<flow, mainVars, parserVars, hooks_current, pc, ctx, raised, live_has_ended, driver_open, streamVars,
                   captchaVars, clockVars, apiVars, outcome, last_result,
                   page_error_retry_count, pe_streak, pe_reloads>>

NextModels == \E s \in Snapshots : ModelsAddSnapshot(s)

SpecModels == InitModels /\ [][NextModels]_vars

\* ================================================================= claims

\* The value the specification gives is_healthy: false under a captcha or a
\* page error, else true for an ended stream, else no error message and a video.
HealthyBySpec(s) ==
    /\ ~(s.has_captcha \/ s.has_page_error)
    /\ (s.is_live_ended \/ (~s.has_error_message /\ s.has_video))

SameHealthFields(s, t) ==
    /\ s.has_captcha = t.has_captcha
    /\ s.has_page_error = t.has_page_error
    /\ s.is_live_ended = t.is_live_ended
    /\ s.has_error_message = t.has_error_message
    /\ s.has_video = t.has_video

\* The number of snapshots of a sequence that HealthyBySpec calls healthy.
RECURSIVE CountHealthyBySpec(_)
CountHealthyBySpec(xs) ==
    IF xs = <<>> THEN 0
    ELSE (IF HealthyBySpec(Head(xs)) THEN 1 ELSE 0) + CountHealthyBySpec(Tail(xs))

\* C1: for every snapshot built, is_healthy is false if has_captcha or
\* has_page_error, otherwise true if is_live_ended, otherwise (not
\* has_error_message and has_video); it depends on these five fields only,
\* and a captcha snapshot is never healthy.  The session counts as healthy
\* exactly the snapshots the rule calls healthy.
C1_IsHealthy ==
    /\ \A i \in 1..Len(snapshots) :
          LET s == snapshots[i]
          IN /\ is_healthy(s) = HealthyBySpec(s)
             /\ s.has_captcha => ~is_healthy(s)
             /\ \A t \in Snapshots : SameHealthFields(s, t) => is_healthy(t) = is_healthy(s)
    /\ healthy_snapshots = CountHealthyBySpec(snapshots)

\* C1 witness: a captcha snapshot with a video and no error message was
\* added and counted as an error snapshot.
C1_Witness ==
    /\ Len(snapshots) >= 1
    /\ snapshots[1].has_captcha /\ snapshots[1].has_video
    /\ ~snapshots[1].has_error_message /\ ~snapshots[1].has_page_error
    /\ error_snapshots = 1


\* One poll of process_live_interactions has just run.
PollStep == pc = "interactions" /\ pc' = "sleep"

\* C2 (as claimed): across any sequence of polls, failed queries included,
\* no interaction is passed to the display layer more than once.
C2_DisplayedOnce ==
    \A i, j \in 1..Len(displayed) : i # j => displayed[i] # displayed[j]

\* C3 (as claimed, its no-gaps part): what has been displayed leaves out
\* nothing that was appended; in particular, once a poll has fetched a
\* non-empty list, every interaction of that list has been displayed,
\* page-error recoveries between polls included.
C3_NoGaps ==
    [][(PollStep /\ processed_interaction_count' > 0)
          => \A k \in 1..Len(page_interactions) :
                \E i \in 1..Len(displayed') : displayed'[i] = page_interactions[k]]_vars

\* C4 (as claimed): processed_interaction_count never decreases.
C4_WatermarkMonotonic ==
    [][processed_interaction_count' >= processed_interaction_count]_vars

\* C5 (as claimed): interactions are displayed in append order: every
\* display of an earlier interaction precedes every display of a later one.
C5_DisplayOrder ==
    \A i, j \in 1..Len(displayed) : i < j => displayed[i] <= displayed[j]

\* C6: from a retry counter of 0, consecutive page-error snapshots get one
\* reload each for the first three, and the fourth makes collect_once return
\* False with no fourth reload.  (A cycle that raised is outside the claim.)
C6_ThreeReloadsThenStop ==
    outcome # "raised" =>
        /\ pe_reloads = Min(pe_streak, max_page_error_retries)
        /\ pe_streak > 0 => page_error_retry_count = pe_reloads
        /\ outcome = "reload" <=> pe_streak \in 1..max_page_error_retries
        /\ outcome = "giveup" <=> pe_streak > max_page_error_retries
        /\ outcome = "giveup" => last_result = "false"

\* C6 witness: the fourth consecutive page-error snapshot has just made
\* collect_once give up after three reloads.
C6_Witness ==
    /\ outcome = "giveup"
    /\ pe_streak = 4
    /\ pe_reloads = 3
    /\ last_result = "false"

\* One inspection by collect_once of snapshot s (create_snapshot returned s
\* and the cycle dispatched on it).
Inspects(s) ==
    /\ pc = "collect"
    /\ \/ PageErrorRetry(s)
       \/ RefreshFault(s)
       \/ PageErrorGiveUp(s)
       \/ CollectCaptcha(s)
       \/ CollectCaptchaNoCapture(s)
       \/ CollectRecord(s)

\* C7: whenever collect_once inspects a snapshot with has_page_error false,
\* whatever its other flags, page_error_retry_count is 0 right afterwards.
C7_ResetOnNoPageError ==
    [][\A s \in InspectedSnapshots :
          (Inspects(s) /\ ~s.has_page_error) => page_error_retry_count' = 0]_vars

\* C7 witness: after a reload (the page's list was emptied after an append)
\* a captcha snapshot without page error was inspected and the counter is 0.
C7_Witness ==
    /\ outcome = "captcha_wait"
    /\ snapshot # NoSnapshot
    /\ page_error_retry_count = 0
    /\ appended > 0
    /\ page_interactions = <<>>


\* C8: no snapshot with has_page_error or has_captcha is ever appended to
\* the session.
C8_OnlyCleanSnapshotsRecorded ==
    \A i \in 1..Len(snapshots) :
        ~snapshots[i].has_page_error /\ ~snapshots[i].has_captcha

\* C8 witness: the stream [healthy, healthy, page_error x4] has been
\* inspected; collect_once gave up and the session holds the two healthy
\* snapshots only.
C8_Witness ==
    /\ outcome = "giveup"
    /\ pe_streak = 4
    /\ Len(snapshots) = 2
    /\ total_snapshots = 2
    /\ is_healthy(snapshots[1]) /\ is_healthy(snapshots[2])
    /\ ~snapshots[1].is_live_ended /\ ~snapshots[2].is_live_ended

C10_HaltsAfterFalse ==
    last_result = "false" => pc \notin {"collect", "captcha_wait"}

\* C11: on a snapshot with is_live_ended and neither page error nor captcha,
\* whatever has_video and has_error_message are, collect_once appends the
\* snapshot to the session counted as healthy, sets live_has_ended and
\* returns False.
C11_EndedBranch ==
    [][\A s \in InspectedSnapshots :
          (Inspects(s) /\ s.is_live_ended /\ ~s.has_page_error /\ ~s.has_captcha)
             => /\ snapshots' = Append(snapshots, s)
                /\ total_snapshots' = total_snapshots + 1
                /\ healthy_snapshots' = healthy_snapshots + 1
                /\ error_snapshots' = error_snapshots
                /\ live_has_ended'
                /\ last_result' = "false"
                /\ ~raised']_vars

\* C11 witness: an ended snapshot with an error message and no video was
\* recorded as healthy, live_has_ended is set and collect_once returned False.
C11_Witness ==
    /\ outcome = "ended"
    /\ live_has_ended
    /\ last_result = "false"
    /\ Len(snapshots) = 1
    /\ snapshots[1].is_live_ended
    /\ snapshots[1].has_error_message /\ ~snapshots[1].has_video
    /\ healthy_snapshots = 1

\* C12: on a snapshot with none of has_page_error, has_captcha and
\* is_live_ended, collect_once appends exactly that snapshot and returns its
\* is_healthy value, which is False exactly when has_error_message is set or
\* has_video is not.
C12_NormalBranch ==
    [][\A s \in InspectedSnapshots :
          (Inspects(s) /\ ~s.has_page_error /\ ~s.has_captcha /\ ~s.is_live_ended)
             => /\ snapshots' = Append(snapshots, s)
                /\ total_snapshots' = total_snapshots + 1
                /\ last_result' = (IF is_healthy(s) THEN "true" ELSE "false")
                /\ last_result' = "false" <=> (s.has_error_message \/ ~s.has_video)
                /\ live_has_ended' = live_has_ended
                /\ ~raised']_vars

\* C12 witness: a normal snapshot with a video and an error message was
\* recorded as the second snapshot and collect_once returned False.
C12_Witness ==
    /\ outcome = "recorded"
    /\ last_result = "false"
    /\ Len(snapshots) = 2
    /\ snapshots[2].has_video /\ snapshots[2].has_error_message
    /\ ~snapshots[2].is_live_ended
    /\ error_snapshots >= 1


\* C13: a snapshot with both has_page_error and has_captcha takes the
\* page-error branch (reload, or give up) and no challenge handling is
\* started for it: the handler's state and the session are left alone.
C13_PageErrorBeforeCaptcha ==
    [][\A s \in InspectedSnapshots :
          (Inspects(s) /\ s.has_page_error /\ s.has_captcha)
             => /\ outcome' \in {"reload", "giveup", "raised"}
                /\ pc' # "captcha_wait"
                /\ captchaVars' = captchaVars
                /\ sessionVars' = sessionVars]_vars

\* C13 witness: a snapshot with both flags has just been answered with a
\* reload, and no challenge handling has ever been started.
C13_Witness ==
    /\ outcome = "reload"
    /\ inspected_captcha
    /\ pe_reloads = 1
    /\ ~captcha_server_up
    /\ ~captcha_image

\* The branch of collect_once a snapshot belongs to, in the order the code
\* tests the flags.
Branch(s) ==
    IF s.has_page_error THEN "page_error"
    ELSE IF s.has_captcha THEN "challenge"
    ELSE IF s.is_live_ended THEN "ended"
    ELSE "video_health"

\* C14 (as claimed): dispatch puts the challenge first: every inspected
\* snapshot with has_captcha, a page error or not, goes to challenge handling.
C14_ChallengeFirst ==
    [][\A s \in InspectedSnapshots :
          (Inspects(s) /\ s.has_captcha)
             => outcome' \in {"captcha_wait", "captcha_failed"}]_vars

\* C14 (amended): dispatch evaluates in the fixed order page error >
\* challenge > ended > video-health and takes exactly one branch per
\* snapshot, the first in that order whose flag is set; a snapshot with both
\* a challenge and a page error is dispatched as a page error.
C14_DispatchOrder ==
    [][\A s \in InspectedSnapshots :
          Inspects(s)
             => /\ outcome' \in {"reload", "giveup", "raised"} <=> Branch(s) = "page_error"
                /\ outcome' \in {"captcha_wait", "captcha_failed"} <=> Branch(s) = "challenge"
                /\ outcome' = "ended" <=> Branch(s) = "ended"
                /\ outcome' = "recorded" <=> Branch(s) = "video_health"
                /\ Branch(s) = "page_error"
                      => captchaVars' = captchaVars /\ sessionVars' = sessionVars
                /\ Branch(s) = "challenge"
                      => sessionVars' = sessionVars /\ pe_reloads' = 0
                /\ Branch(s) \in {"ended", "video_health"}
                      => /\ captchaVars' = captchaVars
                         /\ snapshots' = Append(snapshots, s)
                /\ live_has_ended' # live_has_ended => Branch(s) = "ended"]_vars

\* C14 witness: the fourth page-error snapshot in a row also carried a
\* challenge; it was dispatched as a page error (give up), with no challenge
\* handling started and nothing recorded.
C14_Witness ==
    /\ outcome = "giveup"
    /\ inspected_captcha
    /\ pe_streak = 4
    /\ ~captcha_server_up
    /\ ~live_has_ended
    /\ snapshots = <<>>


\* C15: after any sequence of add_snapshot calls total_snapshots equals
\* healthy_snapshots + error_snapshots, and each call adds 1 to the total and
\* 1 to exactly one of the two counters, the healthy one exactly when the
\* added snapshot is_healthy.
C15_SessionCounts ==
    /\ [](total_snapshots = healthy_snapshots + error_snapshots)
    /\ [][snapshots' # snapshots
            => /\ total_snapshots' = total_snapshots + 1
               /\ Len(snapshots') = Len(snapshots) + 1
               /\ IF is_healthy(snapshots'[Len(snapshots')])
                  THEN /\ healthy_snapshots' = healthy_snapshots + 1
                       /\ error_snapshots' = error_snapshots
                  ELSE /\ healthy_snapshots' = healthy_snapshots
                       /\ error_snapshots' = error_snapshots + 1]_vars

\* C15 witness: a healthy and then an unhealthy snapshot were added;
\* the counters read 2 = 1 + 1.
C15_Witness ==
    /\ total_snapshots = 2
    /\ is_healthy(snapshots[1]) /\ ~is_healthy(snapshots[2])
    /\ healthy_snapshots = 1
    /\ error_snapshots = 1


\* A step in which the loop thread calls into the browser.
LoopBrowserCall ==
    \/ Prepare
    \/ CollectFault
    \/ \E s \in InspectedSnapshots : Inspects(s)
    \/ \E ok \in BOOLEAN : process_live_interactions(ok)
    \/ Cleanup

\* C16 (as claimed): no two browser calls are in progress at the same time:
\* while a request handler is inside a browser call the loop thread makes
\* none.
C16_BrowserCallsSerialized ==
    [][handler_call # "none" => ~LoopBrowserCall]_vars


\* The collector threads that have been started and have not finished.
ActiveThreads == {t \in 1..MaxStarts : threads[t] \in {"started", "running"}}

\* C17 (as claimed): at most one collector thread is active at any time (a
\* start request issued while a run is active is rejected).
C17_OneCollectorThread ==
    Cardinality(ActiveThreads) <= 1


\* C18: once a stop request has been accepted during a run, the loop thread
\* eventually terminates with the browser closed and is_running false,
\* wherever the thread was when the stop arrived.
C18_StopTerminates ==
    (should_stop /\ is_running) ~> (pc = "done" /\ ~driver_open /\ ~is_running)

\* C18 witness: a stop was accepted during a run in which the loop thread
\* waited for a challenge resolution until the window elapsed; the run is
\* over, the browser closed and is_running false.
C18_Witness ==
    /\ should_stop
    /\ outcome = "captcha_timeout"
    /\ pc = "done"
    /\ ~driver_open
    /\ ~is_running




\* C19: every termination of run() or run_single_collect(), whether by normal
\* completion, an unhealthy stop or a fault, is reached through cleanup(), and
\* afterwards the BrowserManager holds no driver.
C19_CleanupOnEveryExit ==
    /\ [](flow \in {"cli", "single"} /\ pc = "done" => ~driver_open)
    /\ [][(flow \in {"cli", "single"} /\ pc # "done" /\ pc' = "done")
            => (pc = "cleanup" /\ ~driver_open')]_vars

\* C19 witness: run() or run_single_collect() has ended because collect_once
\* raised with the browser started, and no driver is held.
C19_Witness ==
    /\ flow \in {"cli", "single"}
    /\ pc = "done"
    /\ raised
    /\ last_result = "raised"
    /\ ~driver_open

\* C20: when a run ends because a fault came out of a collection cycle,
\* finalize (Session.finish and the summary) has been executed: the session
\* has its end time.
C20_SummaryOnFailure ==
    (pc = "done" /\ last_result = "raised") => end_time > 0


\* C21: in every run that ends without a fault after creating its session,
\* Session.finish() has been called exactly once, in the command-line flows
\* and in the control-panel flow, also when the initial collection finds the
\* stream ended.
C21_FinishExactlyOnce ==
    (pc = "done" /\ ~raised) => end_time = 1


\* C22: once Session.finish() has set end_time the session is not modified
\* again in that run: no snapshot is added, no counter changes and end_time
\* keeps its value.
C22_FrozenAfterFinish ==
    [][end_time > 0 => UNCHANGED sessionVars]_vars

\* C22 witness: a session holding a snapshot has been finished and the run
\* has ended.
C22_Witness ==
    /\ end_time > 0
    /\ total_snapshots > 0
    /\ pc = "done"


\* C23: every call of collect_once returns or raises after finitely many
\* inspections, whatever the page shows and whenever the resolution signal
\* comes: the thread does not stay in the collection cycle forever.
C23_CollectOnceReturns ==
    (pc \in {"collect", "captcha_wait"}) ~> (pc \notin {"collect", "captcha_wait"})

\* C23 witness: page-error reloads and a solved challenge have alternated
\* within one call of collect_once until the deepest nested call is running.
C23_Witness ==
    /\ pc = "collect"
    /\ depth = MaxRecursion
    /\ pe_streak \in 1..(MaxRecursion - 1)


\* C24: while the collector waits for a challenge resolution in a
\* control-panel run, a click accepted by the control panel's click endpoint
\* raises the resolution signal that the waiting collector polls.
C24_PanelClickResolves ==
    [][(handle_captcha_click /\ pc = "captcha_wait") => captcha_solved']_vars


\* C25: the reload-and-retry path of the page-error branch changes neither
\* the session nor processed_interaction_count, and no step taken while
\* collect_once is running changes processed_interaction_count.
C25_RetryKeepsSessionAndWatermark ==
    [][/\ pe_reloads' = pe_reloads + 1
          => UNCHANGED <<sessionVars, processed_interaction_count>>
       /\ pc \in {"collect", "captcha_wait"}
          => UNCHANGED processed_interaction_count]_vars

\* C25 witness: a reload-and-retry has run in a monitoring-loop cycle, after
\* interactions were processed and a snapshot recorded.
C25_Witness ==
    /\ pc = "collect"
    /\ outcome = "reload"
    /\ pe_reloads > 0
    /\ processed_interaction_count > 0
    /\ total_snapshots > 0


C27_OneSignalDefaults ==
    pc = "parsed" =>
        /\ status.result = "ParserError" <=> fault = "channel"
        /\ fault \in Signals =>
              /\ status.result = "returned"
              /\ status[fault] = FallbackStatus[fault]
              /\ \A g \in Signals \ {fault} : status[g] = Detected(page)[g]


\* C28: for every body text the preview has length min(500, length of the
\* text) and is the text's first 500 code units with each control character
\* (0x00-0x1F, 0x7F-0x9F) replaced by one space and every other one kept; no
\* control character is in the preview.
C28_PreviewTruncatedAndCleaned ==
    (pc = "parsed" /\ fault = "none") =>
        LET preview == status.bodyTextPreview
            Control == (0..31) \cup (127..159)
        IN /\ Len(preview) = (IF Len(page.body) < 500 THEN Len(page.body) ELSE 500)
           /\ \A i \in 1..Len(preview) :
                 /\ page.body[i] \in Control => preview[i] = 32
                 /\ page.body[i] \notin Control => preview[i] = page.body[i]
                 /\ preview[i] \notin Control

\* C28 witness: a body text of more than 500 code units with a control
\* character at position 500 has been inspected; the preview has 500 code
\* units and a space at that position.
C28_Witness ==
    /\ pc = "parsed"
    /\ fault = "none"
    /\ Len(page.body) > 500
    /\ page.body[500] = 127
    /\ Len(status.bodyTextPreview) = 500
    /\ status.bodyTextPreview[500] = 32


\* C29: Session.snapshots is append-only and in inspection order:
\* total_snapshots is the length of the list, and a step either leaves the
\* list alone or appends the snapshot just inspected at its end, so every
\* earlier value of the list is a prefix of the current one.
C29_AppendOnly ==
    /\ [](total_snapshots = Len(snapshots))
    /\ [][\/ snapshots' = snapshots
          \/ /\ Len(snapshots') = Len(snapshots) + 1
             /\ SubSeq(snapshots', 1, Len(snapshots)) = snapshots
             /\ \A s \in InspectedSnapshots :
                   Inspects(s) => snapshots'[Len(snapshots')] = s]_vars

\* C29 witness: two inspections of different pages have been recorded, the
\* later one after the earlier one.
C29_Witness ==
    /\ Len(snapshots) = 2
    /\ total_snapshots = 2
    /\ snapshots[1] # snapshots[2]


\* C30: in the page-error retry path every reload is followed by a reinstall
\* of the capture hooks before the next inspection: whenever collect_once is
\* about to inspect the page, also right after a reload, the hooks have been
\* installed on the document the browser shows.
C30_ReinstallAfterReload ==
    pc = "collect" => hooks_current

\* C30 witness: the inspection after a reload has run (it found a page error
\* again and reloaded a second time) with the hooks installed.
C30_Witness ==
    /\ pc = "collect"
    /\ outcome = "reload"
    /\ pe_reloads = 2
    /\ hooks_current


\* C31: whenever the collector waits for a challenge resolution, a capture
\* for that episode has been published, and the episode began with the solved
\* flag cleared; when the capture fails no wait is opened and the challenge
\* handling fails at once (collect_once returns false).
C31_WaitHasCapture ==
    /\ [](pc = "captcha_wait" => captcha_image)
    /\ [][/\ (pc = "collect" /\ pc' = "captcha_wait")
             => (captcha_image' /\ ~captcha_solved')
          /\ (pc = "collect" /\ outcome' = "captcha_failed")
             => (~captcha_image' /\ pc' # "captcha_wait" /\ last_result' = "false")]_vars

\* C31 witness: the collector is waiting for a resolution, the capture is
\* published and no resolution has come yet.
C31_Witness ==
    /\ pc = "captcha_wait"
    /\ outcome = "captcha_wait"
    /\ captcha_image
    /\ ~captcha_solved


\* C32: only the loop thread drains the interaction stream: the watermark and
\* the displayed interactions change in process_live_interactions alone, and
\* a step of an interaction query handler leaves the watermark, the displayed
\* interactions and the page's list as they are.
C32_OnlyLoopDrains ==
    [][/\ (processed_interaction_count' # processed_interaction_count
              \/ displayed' # displayed)
             => (pc = "interactions" /\ pc' = "sleep" /\ handler_call' = handler_call)
       /\ (handler_call' # handler_call /\ "query" \in {handler_call, handler_call'})
             => UNCHANGED streamVars]_vars

\* C32 witness: an interaction query is in progress after the loop thread has
\* displayed an interaction, and a further interaction is waiting on the page.
C32_Witness ==
    /\ handler_call = "query"
    /\ processed_interaction_count > 0
    /\ Len(displayed) > 0
    /\ Len(page_interactions) > processed_interaction_count


\* C33: in every reachable state page_error_retry_count is between 0 and
\* max_page_error_retries, and at most that many reloads have been performed
\* since the last inspection that reported no page error.
C33_RetryCountInRange ==
    /\ page_error_retry_count \in 0..max_page_error_retries
    /\ pe_reloads \in 0..max_page_error_retries

\* C33 witness: the third reload in a row has been performed and the cycle is
\* about to inspect the page again.
C33_Witness ==
    /\ pc = "collect"
    /\ outcome = "reload"
    /\ page_error_retry_count = max_page_error_retries
    /\ pe_reloads = max_page_error_retries


\* C34: live_has_ended becomes true only in the step that records an ended
\* snapshot and never returns to false; while it is true the last snapshot of
\* the session is an ended one and no snapshot is appended.
C34_EndedIsFinal ==
    /\ [](live_has_ended =>
            (Len(snapshots) > 0 /\ snapshots[Len(snapshots)].is_live_ended))
    /\ [][/\ live_has_ended => (live_has_ended' /\ snapshots' = snapshots)
          /\ (~live_has_ended /\ live_has_ended')
                => (/\ Len(snapshots') = Len(snapshots) + 1
                    /\ snapshots'[Len(snapshots')].is_live_ended)]_vars

\* C34 witness: the monitoring loop recorded an ended snapshot after an
\* earlier one, and the run is over with live_has_ended still set.
C34_Witness ==
    /\ live_has_ended
    /\ pc = "done"
    /\ Len(snapshots) = 2
    /\ ~snapshots[1].is_live_ended
    /\ snapshots[2].is_live_ended


\* C35: the challenge is marked solved only after a click event was
\* dispatched on a page element at the submitted coordinates: while the
\* solved flag is set, the submission that set it found an element.
C35_SolvedOnlyAfterClick ==
    captcha_solved => click_dispatched


\* C36: a challenge wait returns success only because of a click submission
\* that set the solved flag after that episode's reset(): the episode starts
\* with the flag cleared whatever it was before, during the wait the flag is
\* set by a click submission alone, and the wait succeeds only with the flag
\* set.
C36_FreshResolutionOnly ==
    [][/\ (pc = "collect" /\ pc' = "captcha_wait") => ~captcha_solved'
       /\ (pc = "captcha_wait" /\ ~captcha_solved /\ captcha_solved') => handle_click
       /\ (pc = "captcha_wait" /\ outcome' = "captcha_solved") => captcha_solved]_vars

\* C36 witness: a challenge wait has just ended successfully; the flag was
\* set during the episode by a submission whose click reached an element.
C36_Witness ==
    /\ pc = "collect"
    /\ outcome = "captcha_solved"
    /\ inspected_captcha
    /\ captcha_solved
    /\ click_dispatched


\* C37: when the control panel's collector thread has terminated, for
\* whatever reason, is_running is false (so the next start request passes
\* start_monitoring's test) and the collector's browser is closed.
C37_ThreadExitClearsRunning ==
    (flow = "api" /\ pc = "done") => (~is_running /\ ~driver_open)

\* C37 witness: a collector thread that was never asked to stop has ended on
\* an exception raised by a collection cycle, and is_running is false.
C37_Witness ==
    /\ flow = "api"
    /\ pc = "done"
    /\ raised
    /\ last_result = "raised"
    /\ ~should_stop
    /\ ~is_running


\* C38: a failure while fetching or displaying interactions never aborts the
\* monitoring loop: from the loop's interaction step the thread only goes on
\* to the loop's sleep, no exception is raised, and the session is unchanged.
C38_InteractionsNeverAbort ==
    [][pc = "interactions"
          => /\ pc' \in {"interactions", "sleep"}
             /\ raised' = raised
             /\ UNCHANGED sessionVars]_vars

\* C38 witness: the browser query failed although the page holds
\* interactions (the loop took the list as empty, leaving the watermark at 0
\* after it had displayed some), and the loop has gone on to its sleep.
C38_Witness ==
    /\ pc = "sleep"
    /\ ~raised
    /\ Len(displayed) > 0
    /\ Len(page_interactions) > 0
    /\ processed_interaction_count = 0

=========================================================================
